---- MODULE Spec2Model ----
(***************************************************************************)
(* A model of streamlit_app.py: the geometry flattener extract_coordinates *)
(* (lines 26-36) and the top-to-bottom script pass that Streamlit runs on  *)
(* every user interaction (lines 12-194).                                  *)
(*                                                                         *)
(* Three specifications share the variables:                               *)
(*   SpecFlat  extract_coordinates as a pure function of one geometry;     *)
(*   SpecAgg   the "selected region attributes" block (lines 116-130) as a *)
(*             function of the region table and the selection;             *)
(*   Spec      a session: a sequence of script passes.                     *)
(*                                                                         *)
(* Encoding of Python values.  A coordinate sequence may hold numbers and  *)
(* None, so an element is written Val(v) = <<v>> for the number v and      *)
(* None = <<>> for Python's None.  A raised exception is a result whose    *)
(* status is the exception's class name.                                   *)
(***************************************************************************)
EXTENDS Integers, Sequences, FiniteSets, TLC

VARIABLES
    geometry,          \* SpecFlat: the argument of extract_coordinates
    result,            \* SpecFlat: what the call produced
    passNo,            \* number of script passes started in this session
    pc,                \* position of the running pass ("idle" between passes)
    session_state,     \* st.session_state: [has, show_new_page]
    pressed,           \* what st.button returns in this pass
    remote,            \* the files served to the pass: [gdf_cols, rows, df_ok]
    gdf,               \* rows of the region GeoDataFrame, in file order
    gdf_cols,          \* attribute columns the GeoDataFrame has
    selected_regions,  \* what st.multiselect returned (a set of names)
    fig,               \* traces of the main map figure, in add order
    rendered,          \* elements sent to the page in this pass, in order
    table,             \* rows shown by st.dataframe (line 119)
    pie,               \* values of the pie chart (line 127), <<>> if none
    exc,               \* exception raised inside the try block, "" if none
    widgets,           \* widgets the previous pass put on the page
    temp_dir           \* TRUE while this pass's mkdtemp directory exists

vars == <<geometry, result, passNo, pc, session_state, pressed, remote, gdf,
          gdf_cols, selected_regions, fig, rendered, table, pie, exc, widgets,
          temp_dir>>

(***************************************************************************)
(* Bounds.                                                                 *)
(***************************************************************************)
MaxRingLen == 3    \* coordinates per exterior ring (SpecFlat)
MaxPolys   == 2    \* sub-polygons per multi-polygon (SpecFlat)
MaxRows    == 2    \* rows of the region table (SpecAgg)
MaxRegions == 2    \* rows of the region table (Spec)
MaxPasses  == 3    \* script passes per session (Spec)

CoordVals == {<<0, 1>>, <<2, 3>>}

SeqsUpTo(S, n) == UNION {[1..k -> S] : k \in 0..n}

Range(s) == {s[i] : i \in 1..Len(s)}

(***************************************************************************)
(* Geometries.  type is the shapely class; exterior is exterior.coords of  *)
(* a Polygon; geoms is the .geoms of a MultiPolygon.                       *)
(* shapely builds rings of 0 or of at least 4 coordinates; the shorter     *)
(* rings are kept as inputs because extract_coordinates reads only the     *)
(* coordinate sequence.                                                    *)
(***************************************************************************)
Val(v) == <<v>>
None   == <<>>

Polygon(ring)       == [type |-> "Polygon", exterior |-> ring, geoms |-> <<>>]
MultiPolygon(polys) == [type |-> "MultiPolygon", exterior |-> <<>>, geoms |-> polys]
OtherGeometry(t)    == [type |-> t, exterior |-> <<>>, geoms |-> <<>>]

OtherTypes == {"Point", "LineString", "GeometryCollection", "NoneType"}

Rings == SeqsUpTo(CoordVals, MaxRingLen)

Polygons == {Polygon(r) : r \in Rings}

Geometries ==
    Polygons
    \cup {MultiPolygon(ps) : ps \in SeqsUpTo(Polygons, MaxPolys)}
    \cup {OtherGeometry(t) : t \in OtherTypes}

(***************************************************************************)
(* extract_coordinates, lines 26-36.                                       *)
(***************************************************************************)
Returned(xs, ys) == [status |-> "return", xs |-> xs, ys |-> ys]
Raised(e)        == [status |-> e, xs |-> <<>>, ys |-> <<>>]
Pending          == [status |-> "pending", xs |-> <<>>, ys |-> <<>>]

\* zip(*coords) for 2-D coordinates: no tuple at all for an empty sequence,
\* else the tuple of first components and the tuple of second components.
ZipStar(coords) ==
    IF Len(coords) = 0 THEN <<>>
    ELSE << [i \in 1..Len(coords) |-> Val(coords[i][1])],
            [i \in 1..Len(coords) |-> Val(coords[i][2])] >>

\* Line 28: list(zip(*c))[0], list(zip(*c))[1]; [0] of an empty list raises.
PolygonBranch(g) ==
    LET z == ZipStar(g.exterior)
    IN  IF Len(z) = 0 THEN Raised("IndexError") ELSE Returned(z[1], z[2])

\* Lines 31-34, from sub-polygon i on.  "x, y = zip(...)" raises ValueError
\* when zip yields no tuple to unpack.
RECURSIVE MultiLoop(_, _, _, _)
MultiLoop(geoms, i, x_coords, y_coords) ==
    IF i > Len(geoms) THEN Returned(x_coords, y_coords)
    ELSE LET z == ZipStar(geoms[i].exterior)
         IN  IF Len(z) # 2 THEN Raised("ValueError")
             ELSE MultiLoop(geoms, i + 1,
                            x_coords \o Append(z[1], None),
                            y_coords \o Append(z[2], None))

\* extract_coordinates without its final "return [], []": the call returns
\* None and the caller's "x, y = ..." raises TypeError.
extract_coordinates_nofallthrough(g) ==
    IF g.type = "Polygon" THEN PolygonBranch(g)
    ELSE IF g.type = "MultiPolygon" THEN MultiLoop(g.geoms, 1, <<>>, <<>>)
    ELSE Raised("TypeError")

extract_coordinates(g) ==
    IF g.type = "Polygon" THEN PolygonBranch(g)
    ELSE IF g.type = "MultiPolygon" THEN MultiLoop(g.geoms, 1, <<>>, <<>>)
    ELSE Returned(<<>>, <<>>)

(***************************************************************************)
(* The region table.  A row is one record of the shapefile; NULL is a      *)
(* missing REGION_NAM.  Names are ordered as NameOrder lists them, which   *)
(* stands for Python's string order used by sorted().                      *)
(***************************************************************************)
NULL == "<null>"

NameOrder == <<"A", "B", "Z">>

NameRank(n) == CHOOSE i \in 1..Len(NameOrder) : NameOrder[i] = n

AllColumns == {"REGION_NAM", "Rate", "Area"}

Row(n, r, a, g) == [REGION_NAM |-> n, Rate |-> r, Area |-> a, geometry |-> g]

Triangle == Polygon(<<<<0, 1>>, <<2, 3>>, <<0, 1>>>>)

\* sorted(S), line 58
RECURSIVE Sorted(_)
Sorted(S) ==
    IF S = {} THEN <<>>
    ELSE LET m == CHOOSE x \in S : \A y \in S : NameRank(x) <= NameRank(y)
         IN  <<m>> \o Sorted(S \ {m})

\* gdf['REGION_NAM']
NameColumn(rows) == [i \in 1..Len(rows) |-> rows[i].REGION_NAM]

\* .dropna()
Dropna(names) == SelectSeq(names, LAMBDA n : n # NULL)

\* Line 58: sorted(gdf['REGION_NAM'].dropna().unique().tolist())
region_names(rows) == Sorted(Range(Dropna(NameColumn(rows))))

\* The filter with the matched rows in reverse order.
SelectedGdf_reversed(rows, sel) ==
    LET m == SelectSeq(rows, LAMBDA r : r.REGION_NAM \in sel)
    IN  [i \in 1..Len(m) |-> m[Len(m) + 1 - i]]

\* Line 117: gdf[gdf['REGION_NAM'].isin(selected_regions)]
SelectedGdf(rows, sel) == SelectSeq(rows, LAMBDA r : r.REGION_NAM \in sel)

\* Line 119: selected_gdf[['REGION_NAM', 'Rate', 'Area']]
AttributeView(rows) ==
    [i \in 1..Len(rows) |->
        [REGION_NAM |-> rows[i].REGION_NAM, Rate |-> rows[i].Rate,
         Area |-> rows[i].Area]]

\* Lines 121, 122: ['Area'].sum()
RECURSIVE AreaSum(_)
AreaSum(rows) ==
    IF rows = <<>> THEN 0 ELSE rows[1].Area + AreaSum(Tail(rows))

\* The pie with the total as its second slice.
PieValues_total(selected_area, total_area) == <<selected_area, total_area>>

\* Line 127: values=[selected_area, total_area - selected_area]
PieValues(selected_area, total_area) ==
    <<selected_area, total_area - selected_area>>

\* The block without its guard.
SelectionTruthy_always(sel) == TRUE

\* Line 116: "if selected_regions:" is the truth value of the list
SelectionTruthy(sel) == sel # {}

(***************************************************************************)
(* The main map, lines 62-99.                                              *)
(***************************************************************************)
\* The trace with the two fill colours exchanged.
RegionTrace_swapped(row, coords, is_selected) ==
    [kind |-> "region", x |-> coords.xs, y |-> coords.ys,
     fillcolor |-> IF is_selected THEN "lightgrey" ELSE "lightblue",
     region_name |-> row.REGION_NAM]

\* Lines 69-79: one go.Scatter per row
RegionTrace(row, coords, is_selected) ==
    [kind |-> "region", x |-> coords.xs, y |-> coords.ys,
     fillcolor |-> IF is_selected THEN "lightblue" ELSE "lightgrey",
     region_name |-> row.REGION_NAM]

\* Lines 84-99: the marker trace of the districts (its points are not modelled)
DistrictTrace ==
    [kind |-> "districts", x |-> <<>>, y |-> <<>>, fillcolor |-> "",
     region_name |-> ""]

\* Lines 64-79, from row i on; an exception of extract_coordinates leaves
\* the loop with the traces added so far.
RECURSIVE MapLoop(_, _, _, _)
MapLoop(rows, i, sel, traces) ==
    IF i > Len(rows) THEN [status |-> "ok", fig |-> traces]
    ELSE LET c == extract_coordinates(rows[i].geometry)
             is_selected == rows[i].REGION_NAM \in sel
         IN  IF c.status # "return" THEN [status |-> c.status, fig |-> traces]
             ELSE MapLoop(rows, i + 1, sel,
                          Append(traces, RegionTrace(rows[i], c, is_selected)))

(***************************************************************************)
(* The script pass.                                                        *)
(***************************************************************************)
\* A pass whose steps swallow their exception and go on.
AfterStep_swallow(raisedExc, next) == next

\* try: (line 38) ... except Exception (line 180): a raise inside the try
\* block continues at the handler, anything else at the next statement.
AfterStep(raisedExc, next) == IF raisedExc # "" THEN "except" ELSE next

\* The flag as a toggle: a second press hides the block again.
FlagAfterButton_toggle(flag, isPressed) == IF isPressed THEN ~flag ELSE flag

\* Lines 189-190: the flag after the button
FlagAfterButton(flag, isPressed) == IF isPressed THEN TRUE ELSE flag

\* What lines 40-55 can end with: success, or the exception of line 41
\* (CSV unreachable), line 47 (not a zip archive) or line 51 (no .shp member).
FetchOutcomes == {"ok", "URLError", "BadZipFile", "IndexError"}

\* The progress lines written before the outcome (lines 40 and 44)
FetchWrites(outcome) ==
    IF outcome = "URLError" THEN <<"write:csv">>
    ELSE <<"write:csv", "write:shp">>

\* A user interaction (or the first load) starts a pass: lines 12-24.
StartPass ==
    /\ pc = "idle"
    /\ passNo < MaxPasses
    /\ passNo' = passNo + 1
    /\ pc' = "fetch"
    /\ pressed' \in (IF "button" \in widgets THEN BOOLEAN ELSE {FALSE})
    /\ rendered' = <<"title:main">>
    /\ gdf' = <<>>
    /\ gdf_cols' = {}
    /\ selected_regions' = {}
    /\ fig' = <<>>
    /\ table' = <<>>
    /\ pie' = <<>>
    /\ exc' = ""
    /\ temp_dir' = TRUE
    /\ UNCHANGED <<geometry, result, session_state, remote, widgets>>

\* Lines 40-55
FetchAndParse ==
    /\ pc = "fetch"
    /\ \E outcome \in FetchOutcomes :
        /\ rendered' = rendered \o FetchWrites(outcome)
        /\ exc' = IF outcome = "ok" THEN "" ELSE outcome
        /\ pc' = AfterStep(exc', "select")
        /\ gdf' = IF outcome = "ok" THEN remote.rows ELSE gdf
        /\ gdf_cols' = IF outcome = "ok" THEN remote.gdf_cols ELSE gdf_cols
    /\ UNCHANGED <<geometry, result, passNo, session_state, pressed, remote,
                   selected_regions, fig, table, pie, widgets, temp_dir>>

\* Lines 58-59.  The multiselect returns a subset of its options; it can be
\* non-empty only when the previous pass put the control on the page.
RegionSelection ==
    /\ pc = "select"
    /\ IF "REGION_NAM" \notin gdf_cols
       THEN /\ exc' = "KeyError"
            /\ UNCHANGED <<selected_regions, rendered>>
       ELSE /\ exc' = ""
            /\ \E sel \in SUBSET Range(region_names(gdf)) :
                /\ ("multiselect" \notin widgets => sel = {})
                /\ selected_regions' = sel
            /\ rendered' = Append(rendered, "multiselect")
    /\ pc' = AfterStep(exc', "map")
    /\ UNCHANGED <<geometry, result, passNo, session_state, pressed, remote,
                   gdf, gdf_cols, fig, table, pie, widgets, temp_dir>>

\* Lines 62-79
MainMap ==
    /\ pc = "map"
    /\ LET loop == MapLoop(gdf, 1, selected_regions, <<>>)
       IN  /\ fig' = loop.fig
           /\ exc' = IF loop.status = "ok" THEN "" ELSE loop.status
    /\ pc' = AfterStep(exc', "districts")
    /\ UNCHANGED <<geometry, result, passNo, session_state, pressed, remote,
                   gdf, gdf_cols, selected_regions, rendered, table, pie,
                   widgets, temp_dir>>

\* Lines 82-110: df['Rate'], df['Area'], df['x'], df['y'], df['DISTRICT']
PlotDistricts ==
    /\ pc = "districts"
    /\ IF remote.df_ok
       THEN /\ exc' = ""
            /\ fig' = Append(fig, DistrictTrace)
       ELSE /\ exc' = "KeyError"
            /\ UNCHANGED fig
    /\ pc' = AfterStep(exc', "show_plot")
    /\ UNCHANGED <<geometry, result, passNo, session_state, pressed, remote,
                   gdf, gdf_cols, selected_regions, rendered, table, pie,
                   widgets, temp_dir>>

\* Line 113
ShowPlot ==
    /\ pc = "show_plot"
    /\ rendered' = Append(rendered, "plotly_chart:map")
    /\ pc' = "aggregate"
    /\ UNCHANGED <<geometry, result, passNo, session_state, pressed, remote,
                   gdf, gdf_cols, selected_regions, fig, table, pie, exc,
                   widgets, temp_dir>>

\* Lines 116-130
SelectedAttributes ==
    /\ pc = "aggregate"
    /\ IF ~SelectionTruthy(selected_regions)
       THEN /\ exc' = ""
            /\ UNCHANGED <<rendered, table, pie>>
       ELSE IF "REGION_NAM" \notin gdf_cols
       THEN /\ exc' = "KeyError"
            /\ UNCHANGED <<rendered, table, pie>>
       ELSE IF ~(AllColumns \subseteq gdf_cols)
       THEN /\ exc' = "KeyError"
            /\ rendered' = Append(rendered, "subheader:selected")
            /\ UNCHANGED <<table, pie>>
       ELSE LET selected_gdf == SelectedGdf(gdf, selected_regions)
                selected_area == AreaSum(selected_gdf)
                total_area == AreaSum(gdf)
            IN  /\ exc' = ""
                /\ table' = AttributeView(selected_gdf)
                /\ pie' = PieValues(selected_area, total_area)
                /\ rendered' = rendered \o <<"subheader:selected", "dataframe",
                                             "subheader:pie", "plotly_chart:pie">>
    /\ pc' = AfterStep(exc', "charts")
    /\ UNCHANGED <<geometry, result, passNo, session_state, pressed, remote,
                   gdf, gdf_cols, selected_regions, fig, widgets, temp_dir>>

\* Lines 133-175 (the contents of the two charts are not modelled)
Charts ==
    /\ pc = "charts"
    /\ IF AllColumns \subseteq gdf_cols
       THEN /\ exc' = ""
            /\ rendered' = rendered \o <<"subheader:charts", "markdown:area",
                                         "plotly_chart:area", "markdown:rate",
                                         "plotly_chart:rate">>
       ELSE /\ exc' = "KeyError"
            /\ rendered' = Append(rendered, "subheader:charts")
    /\ pc' = AfterStep(exc', "cleanup")
    /\ UNCHANGED <<geometry, result, passNo, session_state, pressed, remote,
                   gdf, gdf_cols, selected_regions, fig, table, pie, widgets,
                   temp_dir>>

\* Line 178
Cleanup ==
    /\ pc = "cleanup"
    /\ temp_dir' = FALSE
    /\ pc' = "new_page"
    /\ UNCHANGED <<geometry, result, passNo, session_state, pressed, remote,
                   gdf, gdf_cols, selected_regions, fig, rendered, table, pie,
                   exc, widgets>>

\* Lines 180-182
ExceptHandler ==
    /\ pc = "except"
    /\ rendered' = rendered \o <<"error", "write:hint">>
    /\ pc' = "new_page"
    /\ UNCHANGED <<geometry, result, passNo, session_state, pressed, remote,
                   gdf, gdf_cols, selected_regions, fig, table, pie, exc,
                   widgets, temp_dir>>

\* Lines 185-194, and the end of the pass: Streamlit keeps the widgets the
\* pass rendered for the next interaction.
NewPageSection ==
    /\ pc = "new_page"
    /\ LET initial == IF session_state.has THEN session_state.show_new_page
                      ELSE FALSE
           flag == FlagAfterButton(initial, pressed)
           shown == rendered \o <<"markdown:---", "button">>
                    \o (IF flag THEN <<"title:new", "write:new">> ELSE <<>>)
       IN  /\ session_state' = [has |-> TRUE, show_new_page |-> flag]
           /\ rendered' = shown
           /\ widgets' = Range(shown) \cap {"multiselect", "button"}
    /\ pc' = "idle"
    /\ UNCHANGED <<geometry, result, passNo, pressed, remote, gdf, gdf_cols,
                   selected_regions, fig, table, pie, exc, temp_dir>>

(***************************************************************************)
(* Spec: one session.  The served files are fixed for the session; each    *)
(* pass may still fail to fetch them.  Rows are taken as already being in  *)
(* EPSG:3005 (line 55 changes no row count, name or attribute).            *)
(***************************************************************************)
PassNames == {"A", "B", NULL}
PassGeoms == {Triangle, Polygon(<<>>), MultiPolygon(<<Triangle, Triangle>>)}
PassRows  == {Row(n, 7, 2, g) : n \in PassNames, g \in PassGeoms}
ColumnVariants == {AllColumns \ missing : missing \in {{}, {"REGION_NAM"}, {"Rate"}, {"Area"}}}

Init ==
    /\ geometry = OtherGeometry("NoneType")
    /\ result = Pending
    /\ passNo = 0
    /\ pc = "idle"
    /\ session_state = [has |-> FALSE, show_new_page |-> FALSE]
    /\ pressed = FALSE
    /\ remote \in [gdf_cols : ColumnVariants,
                   rows : SeqsUpTo(PassRows, MaxRegions),
                   df_ok : BOOLEAN]
    /\ gdf = <<>>
    /\ gdf_cols = {}
    /\ selected_regions = {}
    /\ fig = <<>>
    /\ rendered = <<>>
    /\ table = <<>>
    /\ pie = <<>>
    /\ exc = ""
    /\ widgets = {}
    /\ temp_dir = FALSE

Next ==
    \/ StartPass
    \/ FetchAndParse
    \/ RegionSelection
    \/ MainMap
    \/ PlotDistricts
    \/ ShowPlot
    \/ SelectedAttributes
    \/ Charts
    \/ Cleanup
    \/ ExceptHandler
    \/ NewPageSection

Spec == Init /\ [][Next]_vars

(***************************************************************************)
(* SpecAgg: lines 116-130 applied to a region table and a selection.  The  *)
(* selection may name a region the table does not have.                    *)
(***************************************************************************)
AggNames      == {"A", "B", NULL}
AggAreas      == {-1, 0, 1, 2}
AggSelectable == {"A", "B", "Z"}
AggRows       == {Row(n, 7, a, Triangle) : n \in AggNames, a \in AggAreas}

InitAgg ==
    /\ geometry = OtherGeometry("NoneType")
    /\ result = Pending
    /\ passNo = 1
    /\ pc = "aggregate"
    /\ session_state = [has |-> FALSE, show_new_page |-> FALSE]
    /\ pressed = FALSE
    /\ gdf \in SeqsUpTo(AggRows, MaxRows)
    /\ gdf_cols = AllColumns
    /\ remote = [gdf_cols |-> gdf_cols, rows |-> gdf, df_ok |-> TRUE]
    /\ selected_regions \in SUBSET AggSelectable
    /\ fig = <<>>
    /\ rendered = <<>>
    /\ table = <<>>
    /\ pie = <<>>
    /\ exc = ""
    /\ widgets = {}
    /\ temp_dir = TRUE

NextAgg == SelectedAttributes

SpecAgg == InitAgg /\ [][NextAgg]_vars

(***************************************************************************)
(* SpecFlat: extract_coordinates applied to one geometry.                  *)
(***************************************************************************)
InitFlat ==
    /\ geometry \in Geometries
    /\ result = Pending
    /\ passNo = 0
    /\ pc = "call"
    /\ session_state = [has |-> FALSE, show_new_page |-> FALSE]
    /\ pressed = FALSE
    /\ remote = [gdf_cols |-> {}, rows |-> <<>>, df_ok |-> FALSE]
    /\ gdf = <<>>
    /\ gdf_cols = {}
    /\ selected_regions = {}
    /\ fig = <<>>
    /\ rendered = <<>>
    /\ table = <<>>
    /\ pie = <<>>
    /\ exc = ""
    /\ widgets = {}
    /\ temp_dir = FALSE

CallExtractCoordinates ==
    /\ pc = "call"
    /\ result' = extract_coordinates(geometry)
    /\ pc' = "called"
    /\ UNCHANGED <<geometry, passNo, session_state, pressed, remote, gdf,
                   gdf_cols, selected_regions, fig, rendered, table, pie, exc,
                   widgets, temp_dir>>

NextFlat == CallExtractCoordinates

SpecFlat == InitFlat /\ [][NextFlat]_vars

(***************************************************************************)
(* Properties.                                                             *)
(***************************************************************************)
\* Component c (1 = x, 2 = y) of a ring's coordinates, in ring order
RingComponent(ring, c) == [i \in 1..Len(ring) |-> Val(ring[i][c])]

\* Component c of each sub-polygon's ring, each ring followed by one None
RECURSIVE FlattenWithGaps(_, _)
FlattenWithGaps(polys, c) ==
    IF polys = <<>> THEN <<>>
    ELSE RingComponent(polys[1].exterior, c) \o <<None>>
         \o FlattenWithGaps(Tail(polys), c)

GapPositions(s) == {i \in 1..Len(s) : s[i] = None}

Called == pc = "called"

\* C1: for a multi-polygon with k >= 1 sub-polygons the call returns xs and
\* ys of equal length, made of the sub-polygons' ring coordinates in order,
\* each ring followed by one None; k gaps in each, at the same positions,
\* the last element being a gap.
C1_Claim ==
    (Called /\ geometry.type = "MultiPolygon" /\ Len(geometry.geoms) >= 1) =>
        /\ result.status = "return"
        /\ Len(result.xs) = Len(result.ys)
        /\ result.xs = FlattenWithGaps(geometry.geoms, 1)
        /\ result.ys = FlattenWithGaps(geometry.geoms, 2)
        /\ Cardinality(GapPositions(result.xs)) = Len(geometry.geoms)
        /\ GapPositions(result.xs) = GapPositions(result.ys)
        /\ result.xs[Len(result.xs)] = None
        /\ result.ys[Len(result.ys)] = None

\* C2: for a simple polygon the call returns exactly the x and the y
\* coordinates of the exterior ring, in ring order, as long as the ring,
\* with no gap.
C2_Claim ==
    (Called /\ geometry.type = "Polygon") =>
        /\ result.status = "return"
        /\ result.xs = RingComponent(geometry.exterior, 1)
        /\ result.ys = RingComponent(geometry.exterior, 2)
        /\ Len(result.xs) = Len(geometry.exterior)
        /\ Len(result.ys) = Len(geometry.exterior)
        /\ GapPositions(result.xs) = {}
        /\ GapPositions(result.ys) = {}

\* C3: the call returns two empty sequences, and raises nothing, for an
\* input that is neither a polygon nor a multi-polygon and for a
\* multi-polygon with no sub-polygon.
C3_Thm ==
    (/\ Called
     /\ \/ geometry.type \notin {"Polygon", "MultiPolygon"}
        \/ geometry.type = "MultiPolygon" /\ Len(geometry.geoms) = 0) =>
        result = Returned(<<>>, <<>>)

C3_Witness ==
    /\ Called
    /\ geometry = MultiPolygon(<<>>)
    /\ result.status = "return"

\* C4: a ring of 0, 1 or 2 coordinates is passed through: as the ring of a
\* simple polygon and as the ring of a sub-polygon the call returns
\* normally with that ring's coordinates (and the trailing gap in a
\* multi-polygon).
C4_Claim ==
    /\ (Called /\ geometry.type = "Polygon" /\ Len(geometry.exterior) < 3) =>
        /\ result.status = "return"
        /\ result.xs = RingComponent(geometry.exterior, 1)
        /\ result.ys = RingComponent(geometry.exterior, 2)
    /\ (/\ Called
        /\ geometry.type = "MultiPolygon"
        /\ \E i \in 1..Len(geometry.geoms) :
               Len(geometry.geoms[i].exterior) < 3) =>
        /\ result.status = "return"
        /\ result.xs = FlattenWithGaps(geometry.geoms, 1)
        /\ result.ys = FlattenWithGaps(geometry.geoms, 2)

\* Sum of Area over the rows whose index is in I
RECURSIVE AreaOver(_, _)
AreaOver(rows, I) ==
    IF I = {} THEN 0
    ELSE LET i == CHOOSE j \in I : TRUE
         IN  rows[i].Area + AreaOver(rows, I \ {i})

Matching(rows, sel) == {i \in 1..Len(rows) : rows[i].REGION_NAM \in sel}

\* The k-th smallest index of I
KthIndex(I, k) == CHOOSE i \in I : Cardinality({j \in I : j <= i}) = k

AttributesOf(row) ==
    [REGION_NAM |-> row.REGION_NAM, Rate |-> row.Rate, Area |-> row.Area]

\* The rows named by sel, and only those, in table order
IsFilteredView(view, rows, sel) ==
    LET I == Matching(rows, sel)
    IN  /\ Len(view) = Cardinality(I)
        /\ \A k \in 1..Len(view) : view[k] = AttributesOf(rows[KthIndex(I, k)])

IsFullView(view, rows) ==
    /\ Len(view) = Len(rows)
    /\ \A k \in 1..Len(rows) : view[k] = AttributesOf(rows[k])

BlockRan == pc = "charts" /\ selected_regions # {}

C6_Claim ==
    BlockRan =>
        /\ exc = ""
        /\ IsFilteredView(table, gdf, selected_regions)
        /\ pie[1] = AreaOver(gdf, Matching(gdf, selected_regions))
        /\ (selected_regions = Range(region_names(gdf))) =>
               /\ pie[1] = AreaOver(gdf, 1..Len(gdf))
               /\ IsFullView(table, gdf)

\* C6 amended: as C6, for a non-empty selection, with the last part holding
\* when no region has a null name.
C6_Thm ==
    BlockRan =>
        /\ exc = ""
        /\ IsFilteredView(table, gdf, selected_regions)
        /\ pie[1] = AreaOver(gdf, Matching(gdf, selected_regions))
        /\ (/\ Range(region_names(gdf)) \subseteq selected_regions
            /\ \A i \in 1..Len(gdf) : gdf[i].REGION_NAM # NULL) =>
               /\ pie[1] = AreaOver(gdf, 1..Len(gdf))
               /\ IsFullView(table, gdf)

C6_Witness ==
    /\ BlockRan
    /\ "Z" \in selected_regions
    /\ Len(table) >= 1
    /\ Len(table) < Len(gdf)
    /\ \A i \in 1..Len(gdf) : gdf[i].REGION_NAM # NULL

PastAggregation == pc \in {"charts", "cleanup", "new_page", "idle"} /\ passNo >= 1

\* C7 as stated: with an empty selection the aggregator still produces its
\* outputs: selected_area 0, remainder total_area, a view with no rows.
C7_Claim ==
    (pc = "charts" /\ selected_regions = {} /\ AllColumns \subseteq gdf_cols) =>
        /\ "dataframe" \in Range(rendered)
        /\ "plotly_chart:pie" \in Range(rendered)
        /\ table = <<>>
        /\ pie = <<0, AreaOver(gdf, 1..Len(gdf))>>

\* C7 amended: in a pass whose selection is empty the block is skipped: no
\* attribute view and no proportion chart are rendered and no area is
\* computed.
C7_Thm ==
    (PastAggregation /\ selected_regions = {}) =>
        /\ "subheader:selected" \notin Range(rendered)
        /\ "dataframe" \notin Range(rendered)
        /\ "plotly_chart:pie" \notin Range(rendered)
        /\ table = <<>>
        /\ pie = <<>>

C7_Witness ==
    /\ pc = "charts"
    /\ selected_regions = {}
    /\ "multiselect" \in widgets
    /\ Len(gdf) > 0
    /\ AllColumns \subseteq gdf_cols
    /\ rendered[Len(rendered)] = "plotly_chart:map"

Visuals == {"plotly_chart:map", "dataframe", "plotly_chart:pie",
            "plotly_chart:area", "plotly_chart:rate"}

Positions(s, e) == {i \in 1..Len(s) : s[i] = e}

\* C8: a failure inside the try block goes straight to the handler, which
\* shows one error message followed by the hint; nothing is shown without a
\* failure; no map, table or chart follows the message; the fetch is made
\* once per pass.
C8_Thm ==
    /\ exc # "" => pc \in {"except", "new_page", "idle"}
    /\ (exc = "" \/ pc = "except") =>
           /\ Positions(rendered, "error") = {}
           /\ Positions(rendered, "write:hint") = {}
    /\ (exc # "" /\ pc \in {"new_page", "idle"}) =>
           /\ Cardinality(Positions(rendered, "error")) = 1
           /\ Cardinality(Positions(rendered, "write:hint")) = 1
           /\ \A i \in Positions(rendered, "error") :
                  /\ rendered[i + 1] = "write:hint"
                  /\ \A j \in (i + 1)..Len(rendered) : rendered[j] \notin Visuals
           /\ Cardinality(Positions(rendered, "write:csv")) = 1
           /\ Cardinality(Positions(rendered, "write:shp")) <= 1

C8_Witness ==
    /\ pc = "idle"
    /\ exc = "KeyError"
    /\ "plotly_chart:map" \in Range(rendered)
    /\ "error" \in Range(rendered)

PassEnded == pc = "idle" /\ passNo >= 1

C9_State ==
    /\ passNo <= 1 => ~session_state.show_new_page
    /\ PassEnded =>
           /\ session_state.has
           /\ pressed => session_state.show_new_page
           /\ "button" \in Range(rendered)
           /\ session_state.show_new_page <=> "title:new" \in Range(rendered)
           /\ session_state.show_new_page <=> "write:new" \in Range(rendered)

\* C9: show_new_page is false in the first pass, true at the end of a pass
\* in which the button was pressed, and once true it stays true; the
\* secondary block is rendered in a pass exactly when the flag is true at
\* its end; the section runs in every pass, failed or not.
C9_Thm ==
    /\ []C9_State
    /\ [][session_state.show_new_page => session_state.show_new_page']_vars

C9_Witness ==
    /\ PassEnded
    /\ passNo = 3
    /\ ~pressed
    /\ exc # ""
    /\ session_state.show_new_page
    /\ "title:new" \in Range(rendered)

ExpectedComponent(g, c) ==
    IF g.type = "Polygon" THEN RingComponent(g.exterior, c)
    ELSE IF g.type = "MultiPolygon" THEN FlattenWithGaps(g.geoms, c)
    ELSE <<>>

MapRendered == "plotly_chart:map" \in Range(rendered)

\* C10: when the map is rendered the figure holds one filled trace per
\* region row, in row order, then the district trace; a region's trace has
\* the highlight colour exactly when its name is selected, and never when
\* its name is null.
C10_Thm ==
    MapRendered =>
        /\ Len(fig) = Len(gdf) + 1
        /\ fig[Len(fig)].kind = "districts"
        /\ \A i \in 1..Len(gdf) :
               /\ fig[i].kind = "region"
               /\ fig[i].region_name = gdf[i].REGION_NAM
               /\ fig[i].x = ExpectedComponent(gdf[i].geometry, 1)
               /\ fig[i].y = ExpectedComponent(gdf[i].geometry, 2)
               /\ fig[i].fillcolor \in {"lightblue", "lightgrey"}
               /\ fig[i].fillcolor = "lightblue" <=>
                      gdf[i].REGION_NAM \in selected_regions
               /\ gdf[i].REGION_NAM = NULL => fig[i].fillcolor = "lightgrey"

C10_Witness ==
    /\ MapRendered
    /\ Len(gdf) = 2
    /\ gdf[1].REGION_NAM = NULL
    /\ gdf[2].REGION_NAM \in selected_regions
    /\ fig[1].fillcolor = "lightgrey"
    /\ fig[2].fillcolor = "lightblue"

====
